---- MODULE Spec2Model ----
(***************************************************************************)
(* A model of the docstring pipeline of src/decorator/generator.py:        *)
(* DocstringGenerator (an ast.NodeVisitor that extracts convention lines    *)
(* from the bodies of classes, functions and async functions, synthesizes  *)
(* a documentation block and rewrites the body) and add_docstrings_to_file *)
(* (parse, visit, render, write).                                          *)
(*                                                                         *)
(* Python strings are sequences of tokens (words and ":"); an AST node is  *)
(* a record whose "kind" is the ast class name; a body is a sequence of    *)
(* statement records.  ast.parse and astor.to_source are external: parse   *)
(* either yields the tree of the input file or raises, to_source either    *)
(* yields the source of the tree or raises, and parsing rendered source    *)
(* yields the rendered tree again.                                         *)
(***************************************************************************)
EXTENDS Integers, Sequences, FiniteSets, TLC

VARIABLES pc, input, tree, log, out, out0, result, run

vars == <<pc, input, tree, log, out, out0, result, run>>

\* Bounds of the model.
MaxBody == 2
MaxMembers == 2
MaxRuns == 3

(***************************************************************************)
(* Python values: None, str, int and Ellipsis objects.                     *)
(***************************************************************************)
PyNone == [t |-> "None", s |-> <<>>]
PyStr(s) == [t |-> "str", s |-> s]
PyInt == [t |-> "int", s |-> <<"1">>]
PyEllipsis == [t |-> "Ellipsis", s |-> <<>>]

\* bool(v) for the values the generators test: None and "" are false.
Truthy(v) == IF v.t = "str" THEN v.s # <<>> ELSE v.t = "int"

\* str(v) as an f-string placeholder renders it.
Format(v) ==
  CASE v.t = "None" -> <<"None">>
    [] v.t = "Ellipsis" -> <<"Ellipsis">>
    [] OTHER -> v.s

\* s.startswith(p)
StartsWith(s, p) == Len(s) >= Len(p) /\ SubSeq(s, 1, Len(p)) = p

\* s.replace(p, ""): every non-overlapping occurrence of p, left to right.
RECURSIVE Replace(_, _)
Replace(s, p) ==
  IF s = <<>> THEN <<>>
  ELSE IF StartsWith(s, p) THEN Replace(SubSeq(s, Len(p) + 1, Len(s)), p)
  ELSE <<Head(s)>> \o Replace(Tail(s), p)

\* "\n".join(lines)
RECURSIVE Join(_)
Join(lines) ==
  IF lines = <<>> THEN <<>>
  ELSE IF Len(lines) = 1 THEN lines[1]
  ELSE lines[1] \o <<"\n">> \o Join(Tail(lines))

\* The convention prefix "<word>:".
Prefix(word) == <<word, ":">>

(***************************************************************************)
(* AST nodes.                                                              *)
(***************************************************************************)
\* Annotation expressions (param.annotation, node.returns).
NoAnn == [t |-> "absent"]
Name(id) == [t |-> "Name", id |-> id]
Constant(v) == [t |-> "Constant", value |-> v]
Subscript == [t |-> "Subscript"]
BinOp(l, r) == [t |-> "BinOp", left |-> l, right |-> r]

Arg(a, ann) == [arg |-> a, annotation |-> ann]

\* Statements.
Pass == [kind |-> "Pass"]
Expr(v) == [kind |-> "Expr", value |-> Constant(v)]
ExprCall == [kind |-> "Expr", value |-> [t |-> "Call"]]
Return(hasValue) == [kind |-> "Return", hasValue |-> hasValue]
Raise(exc) == [kind |-> "Raise", exc |-> exc]
If(body) == [kind |-> "If", body |-> body]
\* args is node.args.args, the positional parameters; kwonlyargs is
\* node.args.kwonlyargs, the parameters declared after a bare *.
FunctionDef(name, args, returns, body) ==
  [kind |-> "FunctionDef", name |-> name, args |-> args, kwonlyargs |-> <<>>,
   returns |-> returns, body |-> body]
AsyncFunctionDef(name, args, returns, body) ==
  [kind |-> "AsyncFunctionDef", name |-> name, args |-> args,
   kwonlyargs |-> <<>>, returns |-> returns, body |-> body]
KwOnly(node, kwonlyargs) == [node EXCEPT !.kwonlyargs = kwonlyargs]
ClassDef(name, body) == [kind |-> "ClassDef", name |-> name, body |-> body]
Module(body) == [kind |-> "Module", body |-> body]

\* The expression of a raise statement: absent (bare raise), a Name, a Call
\* without arguments, a Call with a literal argument.
ExcAbsent == [t |-> "absent"]
ExcName == [t |-> "Name", id |-> "E", args |-> <<>>]
ExcCall0 == [t |-> "Call", id |-> "E", args |-> <<>>]
ExcCall1 == [t |-> "Call", id |-> "E", args |-> <<"msg">>]

\* The attributes an expression object has (getattr fails on any other).
HasAttr(e, attr) ==
  CASE e.t = "Name" -> attr \in {"id", "ctx"}
    [] e.t = "Call" -> attr \in {"func", "args", "keywords"}
    [] OTHER -> FALSE

IsLiteral(stmt) == stmt.kind = "Expr" /\ stmt.value.t = "Constant"
IsUnit(stmt) == stmt.kind \in {"ClassDef", "FunctionDef", "AsyncFunctionDef"}
HasBody(stmt) == stmt.kind \in {"ClassDef", "FunctionDef", "AsyncFunctionDef", "If", "Module"}

\* Results of code that may raise.
Ok(v) == [ok |-> TRUE, v |-> v, err |-> "none"]
Err(e) == [ok |-> FALSE, v |-> <<>>, err |-> e]

Range(f) == {f[i] : i \in DOMAIN f}

\* body with the statements at the positions in extra removed
\* (for item in extra: body.remove(item); AST nodes compare by identity).
RECURSIVE RemoveFrom(_, _, _)
RemoveFrom(body, extra, i) ==
  IF i > Len(body) THEN <<>>
  ELSE (IF i \in extra THEN <<>> ELSE <<body[i]>>) \o RemoveFrom(body, extra, i + 1)

\* A removal that takes only the leading run of consumed statements.
RemoveExtraLeading(body, extra) ==
  LET n == CHOOSE k \in 0..Len(body) :
             /\ \A i \in 1..k : i \in extra
             /\ k < Len(body) => (k + 1) \notin extra
  IN SubSeq(body, n + 1, Len(body))

RemoveExtra(body, extra) == RemoveFrom(body, extra, 1)

(***************************************************************************)
(* DocstringGenerator: extraction for functions and async functions.       *)
(***************************************************************************)
\* __init__: the author identity the generators print.
author_info ==
  [name |-> "Tejus Gupta", github |-> "tejus3131", email |-> "tejus3131@gmail.com",
   github_url |-> "https://github.com/tejus3131"]

\* param_name: one entry per positional parameter, in declaration order;
\* param.annotation.id raises on an annotation that is not a Name.
ParamTable(args) ==
  IF \E i \in DOMAIN args : args[i].annotation.t \notin {"absent", "Name"}
  THEN Err("AttributeError")
  ELSE Ok([i \in DOMAIN args |->
            [name |-> args[i].arg,
             type |-> IF args[i].annotation.t = "Name"
                      THEN args[i].annotation.id ELSE "...",
             msg |-> PyNone]])

\* One side of a binary return annotation: left/right stay unbound when the
\* side is neither a Name nor a Constant.
Side(e) ==
  CASE e.t = "Name" -> Ok(PyStr(<<e.id>>))
    [] e.t = "Constant" -> Ok(e.value)
    [] OTHER -> Err("UnboundLocalError")

\* returns of a function: the annotation's id, "<left> or <right>", or None.
ResolveReturns(returns) ==
  CASE returns.t = "absent" -> Ok(PyNone)
    [] returns.t = "Name" -> Ok(PyStr(<<returns.id>>))
    [] returns.t = "BinOp" ->
         LET l == Side(returns.left)
             r == Side(returns.right)
         IN IF l.ok /\ r.ok
            THEN Ok(PyStr(Format(l.v) \o <<"or">> \o Format(r.v)))
            ELSE Err("UnboundLocalError")
    [] OTHER -> Ok(PyNone)

\* returns of an async function: node.returns.id if node.returns else None.
ResolveAsyncReturns(returns) ==
  CASE returns.t = "absent" -> Ok(PyNone)
    [] returns.t = "Name" -> Ok(PyStr(<<returns.id>>))
    [] OTHER -> Err("AttributeError")

\* (stmt.exc.id, stmt.exe.args.value if stmt.exc.args else "")
RaisePair(stmt) ==
  IF ~HasAttr(stmt.exc, "id") THEN Err("AttributeError")
  ELSE IF ~HasAttr(stmt.exc, "args") THEN Err("AttributeError")
  ELSE IF stmt.exc.args # <<>> THEN Err("AttributeError")
  ELSE Ok(<<stmt.exc.id, "">>)

\* A loop over node.body that consumes a literal only when it is a string of
\* the form "<word>: ...".
RECURSIVE ScanBodyConventionOnly(_, _, _, _)
ScanBodyConventionOnly(body, i, acc, trackReturn) ==
  IF i > Len(body) THEN Ok(acc)
  ELSE LET stmt == body[i] IN
    IF IsLiteral(stmt)
    THEN ScanBodyConventionOnly(body, i + 1,
           [acc EXCEPT !.docs = Append(@, stmt.value.value),
                       !.extra = IF /\ stmt.value.value.t = "str"
                                    /\ Len(stmt.value.value.s) >= 2
                                    /\ stmt.value.value.s[2] = ":"
                                 THEN Append(@, i) ELSE @], trackReturn)
    ELSE IF stmt.kind = "Raise"
    THEN LET p == RaisePair(stmt) IN
         IF p.ok
         THEN ScanBodyConventionOnly(body, i + 1,
                [acc EXCEPT !.exceptions = Append(@, p.v)], trackReturn)
         ELSE p
    ELSE IF trackReturn /\ stmt.kind = "Return"
    THEN ScanBodyConventionOnly(body, i + 1, [acc EXCEPT !.is_return = TRUE],
                                trackReturn)
    ELSE ScanBodyConventionOnly(body, i + 1, acc, trackReturn)

\* The loop over node.body: literal expression statements are buffered and
\* marked consumed, raise statements give exception pairs, return statements
\* set is_return (in the function extractor only: trackReturn).
RECURSIVE ScanBody(_, _, _, _)
ScanBody(body, i, acc, trackReturn) ==
  IF i > Len(body) THEN Ok(acc)
  ELSE LET stmt == body[i] IN
    IF IsLiteral(stmt)
    THEN ScanBody(body, i + 1,
                  [acc EXCEPT !.docs = Append(@, stmt.value.value),
                              !.extra = Append(@, i)], trackReturn)
    ELSE IF stmt.kind = "Raise"
    THEN LET p == RaisePair(stmt) IN
         IF p.ok
         THEN ScanBody(body, i + 1,
                       [acc EXCEPT !.exceptions = Append(@, p.v)], trackReturn)
         ELSE p
    ELSE IF trackReturn /\ stmt.kind = "Return"
    THEN ScanBody(body, i + 1, [acc EXCEPT !.is_return = TRUE], trackReturn)
    ELSE ScanBody(body, i + 1, acc, trackReturn)

EmptyScan == [docs |-> <<>>, extra |-> <<>>, exceptions |-> <<>>, is_return |-> FALSE]

\* for param in param_name.keys(): the first parameter whose "<param>:" the
\* line starts with gets the line with every "<param>:" removed; break.
RECURSIVE ClassifyParam(_, _, _)
ClassifyParam(params, doc, i) ==
  IF i > Len(params) THEN params
  ELSE IF StartsWith(doc, Prefix(params[i].name))
  THEN [params EXCEPT ![i].msg = PyStr(Replace(doc, Prefix(params[i].name)))]
  ELSE ClassifyParam(params, doc, i + 1)

\* A loop over doc_strings that tries the parameter names on every line,
\* whether or not a fixed prefix has matched it.
RECURSIVE ClassifyDocStringsParamsAlways(_, _, _)
ClassifyDocStringsParamsAlways(md, docs, i) ==
  IF i > Len(docs) THEN Ok(md)
  ELSE IF docs[i].t # "str" THEN Err("AttributeError")
  ELSE LET s == docs[i].s
           m == [md EXCEPT !.parameters = ClassifyParam(@, s, 1)]
       IN
    IF StartsWith(s, Prefix("description"))
    THEN ClassifyDocStringsParamsAlways(
           [m EXCEPT !.description = PyStr(Replace(s, Prefix("description")))],
           docs, i + 1)
    ELSE IF StartsWith(s, Prefix("example"))
    THEN ClassifyDocStringsParamsAlways(
           [m EXCEPT !.example = PyStr(Replace(s, Prefix("example")))],
           docs, i + 1)
    ELSE IF StartsWith(s, Prefix("return"))
    THEN ClassifyDocStringsParamsAlways(
           [m EXCEPT !.returns_message = PyStr(Replace(s, Prefix("return")))],
           docs, i + 1)
    ELSE IF StartsWith(s, Prefix("exception"))
    THEN ClassifyDocStringsParamsAlways(
           [m EXCEPT !.exception_message = PyStr(Replace(s, Prefix("exception")))],
           docs, i + 1)
    ELSE ClassifyDocStringsParamsAlways(m, docs, i + 1)

\* The loop over doc_strings of a function or async function.
RECURSIVE ClassifyDocStrings(_, _, _)
ClassifyDocStrings(md, docs, i) ==
  IF i > Len(docs) THEN Ok(md)
  ELSE IF docs[i].t # "str" THEN Err("AttributeError")
  ELSE LET s == docs[i].s IN
    IF StartsWith(s, Prefix("description"))
    THEN ClassifyDocStrings(
           [md EXCEPT !.description = PyStr(Replace(s, Prefix("description")))],
           docs, i + 1)
    ELSE IF StartsWith(s, Prefix("example"))
    THEN ClassifyDocStrings(
           [md EXCEPT !.example = PyStr(Replace(s, Prefix("example")))],
           docs, i + 1)
    ELSE IF StartsWith(s, Prefix("return"))
    THEN ClassifyDocStrings(
           [md EXCEPT !.returns_message = PyStr(Replace(s, Prefix("return")))],
           docs, i + 1)
    ELSE IF StartsWith(s, Prefix("exception"))
    THEN ClassifyDocStrings(
           [md EXCEPT !.exception_message = PyStr(Replace(s, Prefix("exception")))],
           docs, i + 1)
    ELSE ClassifyDocStrings(
           [md EXCEPT !.parameters = ClassifyParam(@, s, 1)], docs, i + 1)

extract_function_metadata(node) ==
  LET metadata == [name |-> node.name, description |-> PyNone,
                   parameters |-> <<>>, exception_message |-> PyNone,
                   exceptions |-> <<>>, returns_message |-> PyNone,
                   returns |-> PyStr(<<>>), is_return |-> FALSE,
                   example |-> PyNone, extra |-> <<>>]
      pt == ParamTable(node.args)
      rt == ResolveReturns(node.returns)
      sc == ScanBody(node.body, 1, EmptyScan, TRUE)
      cl == ClassifyDocStrings(
              [metadata EXCEPT !.extra = sc.v.extra,
                               !.is_return = sc.v.is_return,
                               !.parameters = pt.v], sc.v.docs, 1)
  IN IF node.body = <<>> THEN Ok(metadata)
     ELSE IF ~pt.ok THEN pt
     ELSE IF ~rt.ok THEN rt
     ELSE IF ~sc.ok THEN sc
     ELSE IF ~cl.ok THEN cl
     ELSE Ok([cl.v EXCEPT !.exceptions = sc.v.exceptions, !.returns = rt.v])

extract_async_function_metadata(node) ==
  LET metadata == [name |-> node.name, description |-> PyStr(<<"...">>),
                   parameters |-> <<>>, exception_message |-> PyStr(<<"...">>),
                   exceptions |-> <<>>, returns_message |-> PyStr(<<"...">>),
                   returns |-> PyStr(<<>>), example |-> PyNone, extra |-> <<>>]
      pt == ParamTable(node.args)
      rt == ResolveAsyncReturns(node.returns)
      sc == ScanBody(node.body, 1, EmptyScan, FALSE)
      cl == ClassifyDocStrings(
              [metadata EXCEPT !.extra = sc.v.extra, !.parameters = pt.v],
              sc.v.docs, 1)
  IN IF node.body = <<>> THEN Ok(metadata)
     ELSE IF ~pt.ok THEN pt
     ELSE IF ~rt.ok THEN rt
     ELSE IF ~sc.ok THEN sc
     ELSE IF ~cl.ok THEN cl
     ELSE Ok([cl.v EXCEPT !.exceptions = sc.v.exceptions, !.returns = rt.v])

(***************************************************************************)
(* DocstringGenerator: synthesis for functions and async functions.  A     *)
(* docstring is its list of lines joined by newlines.                      *)
(***************************************************************************)
\* The backtick and the code fence of the Markdown the generators emit.
Backtick == "backtick"
Fence == "fence"

HeaderLines(md) ==
  << <<"#">> \o md.name, <<"---">>, <<"###">> \o Format(md.description), <<"---">> >>

ParamLine(p) ==
  IF p.name \in {"self", "cls"}
  THEN <<"-", Backtick, p.name, Backtick>>
  ELSE <<"-", Backtick, p.name, Backtick, ":", p.type, "-">>
         \o (IF Truthy(p.msg) THEN p.msg.s ELSE <<"...">>)

ParametersSection(md) ==
  IF md.parameters # <<>>
  THEN << <<"## Parameters:">> >>
         \o [i \in DOMAIN md.parameters |-> ParamLine(md.parameters[i])]
         \o << <<>> >>
  ELSE <<>>

ReturnsLine(md) ==
  <<"-">> \o Format(md.returns) \o <<"-">>
    \o (IF Truthy(md.returns_message) THEN md.returns_message.s ELSE <<"...">>)

ReturnsSection(md) ==
  IF Truthy(md.returns) \/ Truthy(md.returns_message)
  THEN << <<"## Returns:">>, ReturnsLine(md), <<>> >>
  ELSE IF md.is_return
  THEN << <<"## Returns:">>, <<"-", "Any", "-", "...">>, <<>> >>
  ELSE <<>>

AsyncReturnsSection(md) ==
  IF Truthy(md.returns) \/ Truthy(md.returns_message)
  THEN << <<"## Returns:">>, ReturnsLine(md), <<>> >>
  ELSE <<>>

ExceptionLine(e) ==
  <<"-", Backtick, e[1], Backtick, ":">> \o (IF e[2] = "" THEN <<>> ELSE <<e[2]>>)

RaisesSection(md) ==
  IF Truthy(md.exception_message) \/ md.exceptions # <<>>
  THEN << <<"## Raises:">> >>
         \o (IF Truthy(md.exception_message)
             THEN << <<"-">> \o md.exception_message.s >> ELSE <<>>)
         \o [i \in DOMAIN md.exceptions |-> ExceptionLine(md.exceptions[i])]
         \o << <<>> >>
  ELSE <<>>

ExampleSection(md) ==
  IF Truthy(md.example)
  THEN << <<"## Example:">>, <<"fence python">>, md.example.s, <<Fence>>, <<"---">> >>
  ELSE <<>>

AuthorLine ==
  <<"Author:", author_info.name, author_info.github, author_info.github_url,
    author_info.email>>

\* The lines of generate_function_docstring, before the join.
FunctionDocLines(md) ==
  LET sections == ParametersSection(md) \o ReturnsSection(md) \o RaisesSection(md)
  IN HeaderLines(md) \o sections
       \o (IF sections # <<>> THEN << <<"---">> >> ELSE <<>>)
       \o ExampleSection(md) \o <<AuthorLine>>

generate_function_docstring(md) == Join(FunctionDocLines(md))

\* The lines of generate_async_function_docstring, before the join.
AsyncFunctionDocLines(md) ==
  LET sections == ParametersSection(md) \o AsyncReturnsSection(md) \o RaisesSection(md)
  IN HeaderLines(md) \o sections
       \o (IF sections # <<>> THEN << <<"---">> >> ELSE <<>>)
       \o ExampleSection(md) \o <<AuthorLine>>

generate_async_function_docstring(md) == Join(AsyncFunctionDocLines(md))

(***************************************************************************)
(* DocstringGenerator: extraction and synthesis for classes.               *)
(***************************************************************************)
\* The statements of body of the given kind, in body order.
OfKind(body, kind) == SelectSeq(body, LAMBDA stmt : stmt.kind = kind)

\* The loop over doc_strings of a class: only description: is recognized.
RECURSIVE ClassifyClassDocStrings(_, _, _)
ClassifyClassDocStrings(md, docs, i) ==
  IF i > Len(docs) THEN Ok(md)
  ELSE IF docs[i].t # "str" THEN Err("AttributeError")
  ELSE IF StartsWith(docs[i].s, Prefix("description"))
  THEN ClassifyClassDocStrings(
         [md EXCEPT !.description = PyStr(Replace(docs[i].s, Prefix("description")))],
         docs, i + 1)
  ELSE ClassifyClassDocStrings(md, docs, i + 1)

\* A class extractor that buffers the literal statements without marking
\* them consumed.
extract_class_metadata_keeping_literals(node) ==
  LET metadata == [name |-> node.name, description |-> PyStr(<<>>),
                   methods |-> <<>>, classes |-> <<>>, extra |-> <<>>]
      literals == SelectSeq(node.body, IsLiteral)
      doc_strings == [i \in DOMAIN literals |-> literals[i].value.value]
      cl == ClassifyClassDocStrings(metadata, doc_strings, 1)
  IN IF node.body = <<>> THEN Ok(metadata)
     ELSE IF ~cl.ok THEN cl
     ELSE Ok([cl.v EXCEPT !.methods = OfKind(node.body, "FunctionDef"),
                          !.classes = OfKind(node.body, "ClassDef")])

extract_class_metadata(node) ==
  LET metadata == [name |-> node.name, description |-> PyStr(<<>>),
                   methods |-> <<>>, classes |-> <<>>, extra |-> <<>>]
      literals == SelectSeq(node.body, IsLiteral)
      doc_strings == [i \in DOMAIN literals |-> literals[i].value.value]
      extra == SelectSeq([i \in 1..Len(node.body) |-> i],
                         LAMBDA i : IsLiteral(node.body[i]))
      cl == ClassifyClassDocStrings([metadata EXCEPT !.extra = extra], doc_strings, 1)
  IN IF node.body = <<>> THEN Ok(metadata)
     ELSE IF ~cl.ok THEN cl
     ELSE Ok([cl.v EXCEPT !.methods = OfKind(node.body, "FunctionDef"),
                          !.classes = OfKind(node.body, "ClassDef")])

\* The bullets of the Methods section: one per method whose name does not
\* start with "__", its text the description extract_function_metadata
\* returns for the method (which may raise).
MethodLine(method, md) ==
  <<"-", Backtick>> \o method.name \o <<"()", Backtick, ":">> \o Format(md.description)

ClassLine(class) == <<"-", Backtick>> \o class.name \o <<Backtick>>

\* The lines of generate_class_docstring, before the join.
ClassDocLines(md) ==
  LET shown == SelectSeq(md.methods, LAMBDA m : ~StartsWith(m.name, <<"__">>))
      extracted == [i \in DOMAIN shown |-> extract_function_metadata(shown[i])]
      failed == {i \in DOMAIN shown : ~extracted[i].ok}
      methods == IF md.methods # <<>>
                 THEN << <<"## Methods:">> >>
                        \o [i \in DOMAIN shown |-> MethodLine(shown[i], extracted[i].v)]
                        \o << <<>> >>
                 ELSE <<>>
      classes == IF md.classes # <<>>
                 THEN << <<"## Classes:">> >>
                        \o [i \in DOMAIN md.classes |-> ClassLine(md.classes[i])]
                        \o << <<>> >>
                 ELSE <<>>
  IN IF failed # {}
     THEN extracted[CHOOSE i \in failed : \A j \in failed : i <= j]
     ELSE Ok(HeaderLines(md) \o methods \o classes
               \o (IF md.methods # <<>> \/ md.classes # <<>>
                   THEN << <<"---">> >> ELSE <<>>)
               \o <<AuthorLine>>)

generate_class_docstring(md) ==
  LET lines == ClassDocLines(md) IN IF lines.ok THEN Ok(Join(lines.v)) ELSE lines

(***************************************************************************)
(* DocstringGenerator: the visitor.  A visit yields the rewritten node and *)
(* the record of the units it visited, or the exception that ended it.     *)
(***************************************************************************)
\* ast.Expr(value=ast.Constant(s=docstring))
DocStmt(docstring) == Expr(PyStr(docstring))

Visited(node, entries) == [ok |-> TRUE, node |-> node, log |-> entries, err |-> "none"]
Raised(node, entries, err) == [ok |-> FALSE, node |-> node, log |-> entries, err |-> err]

\* What a visit_* method did to one unit: the node it was given, its
\* metadata, the lines of its block, its body before the visit and after the
\* block was inserted.
Entry(node, md, lines, body) ==
  [kind |-> node.kind, name |-> node.name, node |-> node, md |-> md,
   lines |-> lines, before |-> node.body, after |-> body]

RECURSIVE visit(_)
RECURSIVE generic_visit(_)
RECURSIVE VisitBody(_)

\* generic_visit over the statements of a body, in order; an exception ends it.
VisitBody(body) ==
  IF body = <<>> THEN [ok |-> TRUE, body |-> <<>>, log |-> <<>>, err |-> "none"]
  ELSE LET r == visit(Head(body)) IN
    IF ~r.ok THEN [ok |-> FALSE, body |-> body, log |-> r.log, err |-> r.err]
    ELSE LET rest == VisitBody(Tail(body)) IN
      [ok |-> rest.ok, body |-> <<r.node>> \o rest.body,
       log |-> r.log \o rest.log, err |-> rest.err]

\* A visitor that descends into the bodies of units and of the module only.
generic_visit_units_only(node) ==
  IF IsUnit(node) \/ node.kind = "Module"
  THEN LET r == VisitBody(node.body) IN
       [ok |-> r.ok, node |-> [node EXCEPT !.body = r.body], log |-> r.log,
        err |-> r.err]
  ELSE Visited(node, <<>>)

generic_visit(node) ==
  IF HasBody(node)
  THEN LET r == VisitBody(node.body) IN
       [ok |-> r.ok, node |-> [node EXCEPT !.body = r.body], log |-> r.log,
        err |-> r.err]
  ELSE Visited(node, <<>>)

\* A visit_* method that inserts the block without removing anything.
RewriteKeepingExtra(node, md, lines) ==
  LET body == <<DocStmt(Join(lines))>> \o node.body
      r == generic_visit([node EXCEPT !.body = body])
  IN [ok |-> r.ok, node |-> r.node,
      log |-> <<Entry(node, md, lines, body)>> \o r.log, err |-> r.err]

\* What a visit_* method does once extraction and synthesis have succeeded:
\* remove the consumed statements, insert the block, visit the children.
Rewrite(node, md, lines) ==
  LET body == <<DocStmt(Join(lines))>> \o RemoveExtra(node.body, Range(md.extra))
      r == generic_visit([node EXCEPT !.body = body])
  IN [ok |-> r.ok, node |-> r.node,
      log |-> <<Entry(node, md, lines, body)>> \o r.log, err |-> r.err]

visit_ClassDef(node) ==
  LET metadata == extract_class_metadata(node)
      lines == ClassDocLines(metadata.v)
  IN IF ~metadata.ok THEN Raised(node, <<>>, metadata.err)
     ELSE IF ~lines.ok THEN Raised(node, <<>>, lines.err)
     ELSE Rewrite(node, metadata.v, lines.v)

visit_FunctionDef(node) ==
  LET metadata == extract_function_metadata(node)
  IN IF ~metadata.ok THEN Raised(node, <<>>, metadata.err)
     ELSE Rewrite(node, metadata.v, FunctionDocLines(metadata.v))

visit_AsyncFunctionDef(node) ==
  LET metadata == extract_async_function_metadata(node)
  IN IF ~metadata.ok THEN Raised(node, <<>>, metadata.err)
     ELSE Rewrite(node, metadata.v, AsyncFunctionDocLines(metadata.v))

\* NodeVisitor.visit: visit_<class name> when the visitor defines it.
visit(node) ==
  CASE node.kind = "ClassDef" -> visit_ClassDef(node)
    [] node.kind = "FunctionDef" -> visit_FunctionDef(node)
    [] node.kind = "AsyncFunctionDef" -> visit_AsyncFunctionDef(node)
    [] OTHER -> generic_visit(node)

(***************************************************************************)
(* The inputs: source files (trees, or text that does not parse) and the   *)
(* state of the output path.                                               *)
(***************************************************************************)
\* All sequences over S of length 1..n.
SeqsUpTo(S, n) == UNION {[1..k -> S] : k \in 1..n}

Doc(word) == Expr(PyStr(<<word, ":", "t">>))

\* The statements the bodies of the routine family are built from.
BodyStmts ==
  {Doc("description"), Doc("x"), Doc("return"), Doc("exception"), Doc("example"),
   Expr(PyStr(<<"t">>)), Expr(PyEllipsis), Pass, Return(TRUE), Return(FALSE),
   Raise(ExcName), Raise(ExcCall1)}

\* One routine f(x) with every body of at most MaxBody statements.
BodyFamily ==
  {Module(<<FunctionDef(<<"f">>, <<Arg("x", NoAnn)>>, NoAnn, b)>>) : b \in SeqsUpTo(BodyStmts, MaxBody)}
  \cup
  {Module(<<AsyncFunctionDef(<<"f">>, <<Arg("x", NoAnn)>>, NoAnn, b)>>) : b \in SeqsUpTo(BodyStmts, MaxBody)}

\* Signatures: parameter lists and return annotations.
ArgLists ==
  {<<>>, <<Arg("x", NoAnn)>>, <<Arg("self", NoAnn), Arg("x", Name("int"))>>,
   <<Arg("x", Subscript)>>}

ReturnAnns ==
  {NoAnn, Name("int"), BinOp(Name("int"), Name("str")),
   BinOp(Name("int"), Constant(PyNone)), BinOp(Subscript, Name("int")), Subscript}

SignatureBodies ==
  {<<Pass>>, <<Return(TRUE)>>, <<Doc("return"), Return(TRUE)>>, <<Doc("x"), ExprCall>>}

SignatureFamily ==
  {Module(<<FunctionDef(<<"f">>, a, r, b)>>) :
     a \in ArgLists, r \in ReturnAnns, b \in SignatureBodies}
  \cup
  {Module(<<AsyncFunctionDef(<<"f">>, a, r, b)>>) :
     a \in ArgLists, r \in ReturnAnns, b \in SignatureBodies}

\* Convention lines: two descriptions, a line that repeats its prefix, a
\* parameter line, one that repeats its prefix, an example and a plain string.
Line(tokens) == Expr(PyStr(tokens))
ConventionLines ==
  {Doc("description"), Line(<<"description", ":", "u">>),
   Line(<<"description", ":", "t", "description", ":", "u">>),
   Doc("x"), Line(<<"x", ":", "t", "x", ":">>), Doc("example"), Line(<<"t">>)}

\* One routine f(description, x), a parameter sharing its name with a fixed
\* prefix, with every body of at most MaxBody convention lines.
ClassifyArgs == <<Arg("description", NoAnn), Arg("x", Name("int"))>>
ClassifyFamily ==
  {Module(<<FunctionDef(<<"f">>, ClassifyArgs, NoAnn, b)>>) :
     b \in SeqsUpTo(ConventionLines, MaxBody)}
  \cup
  {Module(<<AsyncFunctionDef(<<"f">>, ClassifyArgs, NoAnn, b)>>) :
     b \in SeqsUpTo(ConventionLines, MaxBody)}

\* Parameter lists: none, untyped, a method's, typed, and a keyword-only
\* parameter k; bodies with no line, a line for x, a line for x with an empty
\* message and a line for k.
ParamArgLists ==
  {<<>>, <<Arg("x", NoAnn)>>, <<Arg("self", NoAnn), Arg("x", Name("int"))>>,
   <<Arg("x", NoAnn), Arg("y", Name("str"))>>}
KwOnlyLists == {<<>>, <<Arg("k", NoAnn)>>}
ParamBodies == {<<Pass>>, <<Doc("x"), Pass>>, <<Line(<<"x", ":">>), Pass>>, <<Doc("k"), Pass>>}
ParameterFamily ==
  {Module(<<KwOnly(FunctionDef(<<"f">>, a, NoAnn, b), kw)>>) :
     a \in ParamArgLists, kw \in KwOnlyLists, b \in ParamBodies}
  \cup
  {Module(<<KwOnly(AsyncFunctionDef(<<"f">>, a, NoAnn, b), kw)>>) :
     a \in ParamArgLists, kw \in KwOnlyLists, b \in ParamBodies}

\* Nesting: the members of a class or of the module.
Members ==
  {FunctionDef(<<"m">>, <<Arg("self", NoAnn)>>, NoAnn, <<Doc("description"), Pass>>),
   FunctionDef(<<"__", "init__">>, <<Arg("self", NoAnn)>>, NoAnn,
               <<Doc("description"), Pass>>),
   FunctionDef(<<"r">>, <<>>, NoAnn, <<Raise(ExcName)>>),
   AsyncFunctionDef(<<"a">>, <<>>, NoAnn, <<Pass>>),
   ClassDef(<<"D">>, <<Doc("description"),
                       FunctionDef(<<"n">>, <<>>, NoAnn, <<Return(TRUE)>>)>>),
   If(<<FunctionDef(<<"g">>, <<>>, NoAnn,
                    <<Pass, FunctionDef(<<"h">>, <<>>, NoAnn, <<Doc("description")>>)>>)>>),
   Doc("description"), Expr(PyStr(<<"t">>)), Expr(PyEllipsis), Pass}

NestingFamily ==
  {Module(<<ClassDef(<<"C">>, ms)>>) : ms \in SeqsUpTo(Members, MaxMembers)}
  \cup
  {Module(ms) : ms \in SeqsUpTo(Members, MaxMembers)}

\* What ast.parse does with the input file: it returns the tree, raises a
\* SyntaxError that carries (message, (file, line, ...)), or raises an
\* exception whose args hold the message alone (a source with a null byte,
\* an expression nested too deep for the parser's recursion limit).
Parses(t) == [status |-> "ok", tree |-> t]
NoTree == Module(<<>>)
Inputs ==
  {Parses(t) : t \in BodyFamily \cup SignatureFamily \cup ClassifyFamily
                    \cup ParameterFamily \cup NestingFamily}
  \cup {[status |-> "SyntaxError", tree |-> NoTree],
        [status |-> "NoLocation", tree |-> NoTree]}

\* The output path: whether the file exists, whether os.path.dirname of
\* the path names an existing directory (dirname "" of a bare file name
\* does not), and the file's content.
OldContent == Module(<<Pass>>)
Absent == Module(<<>>)
OutStates ==
  {[dirname |-> "", dir |-> FALSE, exists |-> TRUE, content |-> OldContent],
   [dirname |-> "", dir |-> FALSE, exists |-> FALSE, content |-> Absent],
   [dirname |-> "d", dir |-> TRUE, exists |-> FALSE, content |-> Absent],
   [dirname |-> "d", dir |-> FALSE, exists |-> FALSE, content |-> Absent]}

NoResult == [status |-> "none", ok |-> FALSE, msg |-> ""]
Returned(ok, msg) == [status |-> "returned", ok |-> ok, msg |-> msg]
Escaped(err) == [status |-> "raised", ok |-> FALSE, msg |-> err]

(***************************************************************************)
(* add_docstrings_to_file, one action per step.                            *)
(***************************************************************************)
Init ==
  /\ pc = "start"
  /\ input \in Inputs
  /\ tree = NoTree
  /\ log = <<>>
  /\ out \in OutStates
  /\ out0 = out
  /\ result = NoResult
  /\ run = 1

\* tree = ast.parse(source_code); the handler formats e.args[1][1].
Parse ==
  /\ pc = "start"
  /\ CASE input.status = "ok" ->
            /\ tree' = input.tree
            /\ pc' = "parsed"
            /\ result' = result
       [] input.status = "SyntaxError" ->
            /\ pc' = "returned"
            /\ result' = Returned(FALSE, "SyntaxError")
            /\ tree' = tree
       [] OTHER ->
            /\ pc' = "raised"
            /\ result' = Escaped("IndexError")
            /\ tree' = tree
  /\ UNCHANGED <<input, log, out, out0, run>>

\* docstring_generator.visit(tree)
Visit ==
  /\ pc = "parsed"
  /\ LET r == visit(tree) IN
       /\ log' = r.log
       /\ IF r.ok
          THEN /\ tree' = r.node
               /\ pc' = "visited"
               /\ result' = result
          ELSE /\ tree' = tree
               /\ pc' = "returned"
               /\ result' = Returned(FALSE, r.err)
  /\ UNCHANGED <<input, out, out0, run>>

\* updated_code = astor.to_source(tree), which may raise.
Render ==
  /\ pc = "visited"
  /\ \E rendered \in BOOLEAN :
       IF rendered
       THEN pc' = "rendered" /\ result' = result
       ELSE pc' = "returned" /\ result' = Returned(FALSE, "to_source")
  /\ UNCHANGED <<input, tree, log, out, out0, run>>

\* os.remove(output_file), or os.makedirs(os.path.dirname(output_file)).
PrepareOutput ==
  /\ pc = "rendered"
  /\ IF out.exists
     THEN /\ out' = [out EXCEPT !.exists = FALSE, !.content = Absent]
          /\ pc' = "prepared"
          /\ result' = result
     ELSE IF ~out.dir
     THEN IF out.dirname = ""
          THEN /\ out' = out
               /\ pc' = "raised"
               /\ result' = Escaped("FileNotFoundError")
          ELSE /\ out' = [out EXCEPT !.dir = TRUE]
               /\ pc' = "prepared"
               /\ result' = result
     ELSE /\ out' = out
          /\ pc' = "prepared"
          /\ result' = result
  /\ UNCHANGED <<input, tree, log, out0, run>>

\* with open(output_file, "w") as f: f.write(updated_code); return True, ...
WriteOutput ==
  /\ pc = "prepared"
  /\ out' = [out EXCEPT !.exists = TRUE, !.content = tree]
  /\ pc' = "returned"
  /\ result' = Returned(TRUE, "saved")
  /\ UNCHANGED <<input, tree, log, out0, run>>

\* The next call takes the file the last call wrote as its input file.
Rerun ==
  /\ pc = "returned"
  /\ result.ok
  /\ run < MaxRuns
  /\ input' = Parses(out.content)
  /\ tree' = NoTree
  /\ log' = <<>>
  /\ out0' = out
  /\ result' = NoResult
  /\ pc' = "start"
  /\ run' = run + 1
  /\ UNCHANGED out

Next == Parse \/ Visit \/ Render \/ PrepareOutput \/ WriteOutput \/ Rerun

Spec == Init /\ [][Next]_vars
(***************************************************************************)
(* Properties.                                                             *)
(***************************************************************************)
\* The units of a tree in pre-order document order.
RECURSIVE UnitsOf(_)
RECURSIVE UnitsOfBody(_)
UnitsOfBody(body) ==
  IF body = <<>> THEN <<>> ELSE UnitsOf(Head(body)) \o UnitsOfBody(Tail(body))
UnitsOf(node) ==
  IF IsUnit(node) THEN <<node>> \o UnitsOfBody(node.body)
  ELSE IF HasBody(node) THEN UnitsOfBody(node.body)
  ELSE <<>>

IsRoutine(node) == node.kind \in {"FunctionDef", "AsyncFunctionDef"}
IsStrLiteral(stmt) == IsLiteral(stmt) /\ stmt.value.value.t = "str"

\* The convention prefixes of a unit: description: for a class; for a
\* routine also example:, return:, exception: and <declared parameter>:.
PrefixesOf(node) ==
  IF node.kind = "ClassDef" THEN {Prefix("description")}
  ELSE {Prefix(w) : w \in {"description", "example", "return", "exception"}}
         \cup {Prefix(node.args[i].arg) : i \in DOMAIN node.args}

\* A recognized convention statement of the unit node.
IsRecognized(node, stmt) ==
  IsStrLiteral(stmt) /\ \E p \in PrefixesOf(node) : StartsWith(stmt.value.value.s, p)

\* The call has ended on a failure of parse, visit or render.
FailedBeforeOutput ==
  \/ input.status # "ok" /\ pc # "start"
  \/ pc \in {"returned", "raised"} /\ ~result.ok /\ result.msg # "FileNotFoundError"

\* C1 (as claimed): a call whose parse, visit or render fails returns
\* (False, message) and leaves the output path as it was, and the output path
\* is touched only after all three have succeeded.
C1_FailureReturnsFalseOutputUntouched ==
  /\ pc \in {"start", "parsed", "visited", "rendered"} => out = out0
  /\ FailedBeforeOutput =>
       result.status = "returned" /\ ~result.ok /\ out = out0

\* The part of C1 the code keeps: no failure of parse, visit or render
\* touches the output path, however the call ends.
C1_OutputUntouchedOnFailure ==
  /\ pc \in {"start", "parsed", "visited", "rendered"} => out = out0
  /\ FailedBeforeOutput => out = out0

\* C2: after a successful traversal the visitor has visited every class,
\* function and async function of the tree, nested ones included, exactly
\* once in pre-order document order, and each has its synthesized block as
\* the first statement of its body.
C2_EveryUnitVisitedOnceWithBlock ==
  pc = "visited" =>
    LET before == UnitsOf(input.tree)
        after == UnitsOf(tree)
    IN /\ Len(log) = Len(before)
       /\ Len(after) = Len(before)
       /\ \A i \in DOMAIN log :
            /\ log[i].node = before[i]
            /\ after[i].name = before[i].name
            /\ after[i].body # <<>>
            /\ after[i].body[1] = DocStmt(Join(log[i].lines))
            /\ log[i].lines[1] = <<"#">> \o before[i].name

\* A class whose traversal visited a function nested in a function nested
\* in an if statement, and an async function.
C2_Witness ==
  /\ pc = "visited"
  /\ log # <<>>
  /\ log[1].kind = "ClassDef"
  /\ \E i \in DOMAIN log : log[i].name = <<"h">>
  /\ \E i \in DOMAIN log : log[i].kind = "AsyncFunctionDef"
\* The extractor of the unit's kind.
ExtractOf(node) ==
  CASE node.kind = "ClassDef" -> extract_class_metadata(node)
    [] node.kind = "FunctionDef" -> extract_function_metadata(node)
    [] OTHER -> extract_async_function_metadata(node)

\* C3 (as claimed): in every visited unit the statements after the inserted
\* block are exactly the statements of the original body that are not
\* recognized convention statements, unchanged and in their original order.
C3_RestIsNonConventionStatements ==
  \A k \in DOMAIN log :
    Tail(log[k].after)
      = SelectSeq(log[k].before, LAMBDA st : ~IsRecognized(log[k].node, st))

\* C3 (amended): in every visited unit the statements after the inserted
\* block are exactly the statements of the original body that are not bare
\* literal expression statements, unchanged and in their original order.
C3_RestIsNonLiteralStatements ==
  \A k \in DOMAIN log :
    /\ log[k].after[1] = DocStmt(Join(log[k].lines))
    /\ Tail(log[k].after) = SelectSeq(log[k].before, LAMBDA st : ~IsLiteral(st))

\* A visited unit whose body held a recognized convention statement after a
\* statement that is no literal.
C3_Witness ==
  /\ pc = "visited"
  /\ \E k \in DOMAIN log :
       /\ Len(log[k].before) >= 2
       /\ ~IsLiteral(log[k].before[1])
       /\ IsRecognized(log[k].node, log[k].before[2])

\* The unmatched string literals of a visited unit: positions of its
\* original body holding a string literal that starts with no prefix of the
\* unit.
Unmatched(e) ==
  {i \in DOMAIN e.before :
     IsStrLiteral(e.before[i]) /\ ~IsRecognized(e.node, e.before[i])}

\* C4 (as claimed): a string literal statement that matches no recognized
\* prefix is still in the body after the unit has been visited.
C4_UnmatchedLiteralKept ==
  \A k \in DOMAIN log : \A i \in Unmatched(log[k]) :
    \E j \in 2..Len(log[k].after) : log[k].after[j] = log[k].before[i]

\* C4 (amended): a string literal statement that matches no recognized
\* prefix sets no metadata field (the metadata is that of the body with a
\* pass in its place) but is consumed: it is gone from the body after the
\* unit has been visited.
C4_UnmatchedLiteralConsumedUnclassified ==
  \A k \in DOMAIN log : \A i \in Unmatched(log[k]) :
    LET e == log[k]
        other == ExtractOf([e.node EXCEPT !.body[i] = Pass])
    IN /\ i \in Range(e.md.extra)
       /\ \A j \in 2..Len(e.after) : e.after[j] # e.before[i]
       /\ other.ok
       /\ [e.md EXCEPT !.extra = <<>>] = [other.v EXCEPT !.extra = <<>>]

\* A visited unit whose body held an unmatched string literal and a
\* statement that is no literal.
C4_Witness ==
  /\ pc = "visited"
  /\ \E k \in DOMAIN log :
       /\ Unmatched(log[k]) # {}
       /\ \E j \in DOMAIN log[k].before : ~IsLiteral(log[k].before[j])
\* C5 (as claimed): extraction never fails the pipeline, so a call on an
\* input that parses never returns a failure that the traversal caused.
C5_ExtractionNeverFails ==
  (input.status = "ok" /\ pc = "returned" /\ ~result.ok) => result.msg = "to_source"

\* C6 (as claimed): after a second run on the output of a first run every
\* unit's body starts with two stacked blocks, the new one and then the
\* first run's, left in place as an ordinary statement.
C6_SecondRunStacksBlocks ==
  (run = 2 /\ pc = "visited") =>
    \A k \in DOMAIN log :
      /\ Len(log[k].after) >= 2
      /\ log[k].after[1] = DocStmt(Join(log[k].lines))
      /\ log[k].after[2] = log[k].before[1]

\* C6 (amended): a second run on the output of a first run consumes the
\* first run's block of every unit (it is a bare literal statement) and
\* inserts a new block in its place: after the second run every unit's body
\* starts with one block, the new one, followed by the statements that
\* followed the first run's block, none of them a literal.
C6_SecondRunReplacesBlock ==
  (run = 2 /\ pc = "visited") =>
    \A k \in DOMAIN log :
      /\ IsStrLiteral(log[k].before[1])
      /\ StartsWith(log[k].before[1].value.value.s, <<"#">> \o log[k].name)
      /\ log[k].after[1] = DocStmt(Join(log[k].lines))
      /\ Tail(log[k].after) = Tail(log[k].before)
      /\ \A j \in 2..Len(log[k].after) : ~IsLiteral(log[k].after[j])

\* A second run that has visited a unit nested in another, the outer one
\* with statements after its block.
C6_Witness ==
  /\ run = 2
  /\ pc = "visited"
  /\ Len(log) >= 2
  /\ Len(log[1].after) >= 2

\* The routine of an input file that holds one routine and nothing else.
HasTopRoutine ==
  /\ input.status = "ok"
  /\ Len(input.tree.body) = 1
  /\ IsRoutine(input.tree.body[1])
TopRoutine == input.tree.body[1]

\* The first run's traversal of the input has ended, either way.
FirstVisitEnded == run = 1 /\ input.status = "ok" /\ pc \notin {"start", "parsed"}

\* section occurs in lines as a run of consecutive lines.
HasSection(lines, section) ==
  \E i \in 1..(Len(lines) - Len(section) + 1) :
    SubSeq(lines, i, i + Len(section) - 1) = section

\* The pairs the raise statements of a body stand for: the exception's name
\* and its first argument, or the empty string.
ExpectedPairs(body) ==
  LET raises == SelectSeq(body, LAMBDA st : st.kind = "Raise")
  IN [i \in DOMAIN raises |->
        <<raises[i].exc.id,
          IF raises[i].exc.args # <<>> THEN raises[i].exc.args[1] ELSE "">>]

\* C7 (as claimed): every raise statement of a routine's body gives one
\* pair (exception name, first argument or "") in exceptions, in body order,
\* and a raise of a bare name with no exception: line renders a Raises
\* section of exactly one bullet with an empty message.
C7_RaisePairsCollected ==
  (/\ FirstVisitEnded
   /\ HasTopRoutine
   /\ \E st \in Range(TopRoutine.body) : st.kind = "Raise"
   /\ \A st \in Range(TopRoutine.body) :
        /\ IsLiteral(st) => IsStrLiteral(st)
        /\ st.kind = "Raise" => st.exc.t \in {"Name", "Call"})
  => /\ log # <<>>
     /\ log[1].md.exceptions = ExpectedPairs(TopRoutine.body)
     /\ (/\ log[1].md.exceptions = << <<"E", "">> >>
         /\ ~Truthy(log[1].md.exception_message))
        => HasSection(log[1].lines,
                      << <<"## Raises:">>, <<"-", Backtick, "E", Backtick, ":">>, <<>> >>)

\* C8 (as claimed): the block of a routine without convention statements is
\* the name heading, an empty description line and the author footer, with
\* no Parameters, Returns or Raises section.
C8_NoConventionMinimalBlock ==
  \A k \in DOMAIN log :
    (/\ IsRoutine(log[k].node)
     /\ \A st \in Range(log[k].before) : ~IsRecognized(log[k].node, st))
    => /\ log[k].lines[1] = <<"#">> \o log[k].name
       /\ log[k].lines[3] = <<"###">>
       /\ log[k].lines[Len(log[k].lines)] = AuthorLine
       /\ \A i \in DOMAIN log[k].lines :
            log[k].lines[i] \notin
              {<<"## Parameters:">>, <<"## Returns:">>, <<"## Raises:">>}

\* C9 (as claimed): a routine with a return-with-value statement and no
\* return: line renders the Returns section with the one bullet
\* "- Any - ...", and is_return is set only by a return that carries a value.
C9_ReturnWithValueRendersAny ==
  \A k \in DOMAIN log :
    IsRoutine(log[k].node) =>
      /\ (/\ \E st \in Range(log[k].before) : st.kind = "Return" /\ st.hasValue
          /\ \A st \in Range(log[k].before) :
               IsStrLiteral(st) => ~StartsWith(st.value.value.s, Prefix("return")))
         => HasSection(log[k].lines,
                       << <<"## Returns:">>, <<"-", "Any", "-", "...">>, <<>> >>)
      /\ (log[k].kind = "FunctionDef" /\ log[k].md.is_return)
         => \E st \in Range(log[k].before) : st.kind = "Return" /\ st.hasValue

\* The text of one alternative of a union annotation.
SideText(e) == IF e.t = "Name" THEN <<e.id>> ELSE Format(e.value)

\* C10 (as claimed): a routine, sync or async, whose return annotation is a
\* union of two alternatives, each a name or a literal, gets the returns
\* type "<left> or <right>", which is the type of its Returns bullet.
C10_UnionReturnsRendered ==
  (/\ FirstVisitEnded
   /\ HasTopRoutine
   /\ TopRoutine.returns.t = "BinOp"
   /\ TopRoutine.returns.left.t \in {"Name", "Constant"}
   /\ TopRoutine.returns.right.t \in {"Name", "Constant"}
   /\ ParamTable(TopRoutine.args).ok)
  => LET type == SideText(TopRoutine.returns.left) \o <<"or">>
                   \o SideText(TopRoutine.returns.right)
     IN /\ log # <<>>
        /\ log[1].md.returns = PyStr(type)
        /\ \E i \in DOMAIN log[1].lines :
             /\ i > 1
             /\ log[1].lines[i - 1] = <<"## Returns:">>
             /\ StartsWith(log[1].lines[i], <<"-">> \o type \o <<"-">>)

\* The fixed convention words in priority order, and the metadata field each
\* one sets.
FixedWords == <<"description", "example", "return", "exception">>
FieldOf(word) ==
  CASE word = "description" -> "description"
    [] word = "example" -> "example"
    [] word = "return" -> "returns_message"
    [] word = "exception" -> "exception_message"

\* The value a field has when no line sets it.
DefaultOf(kind, word) ==
  IF kind = "AsyncFunctionDef" /\ word # "example" THEN PyStr(<<"...">>) ELSE PyNone

\* The string literal statements of a body, in body order.
StrLines(body) ==
  LET lits == SelectSeq(body, IsStrLiteral)
  IN [i \in DOMAIN lits |-> lits[i].value.value.s]

\* The one field the priority order gives a line of the routine node: the
\* first fixed word whose prefix starts it; failing that the first declared
\* parameter whose prefix starts it; failing that none.
Target(node, s) ==
  LET fixed == {k \in DOMAIN FixedWords : StartsWith(s, Prefix(FixedWords[k]))}
      params == {i \in DOMAIN node.args : StartsWith(s, Prefix(node.args[i].arg))}
  IN IF fixed # {}
     THEN <<"field", FixedWords[CHOOSE k \in fixed : \A j \in fixed : k <= j]>>
     ELSE IF params # {}
     THEN <<"param", node.args[CHOOSE i \in params : \A j \in params : i <= j].arg>>
     ELSE <<"none", "">>

\* The fields of a visited routine's metadata that some line has set.
Changed(e) ==
  {<<"field", FixedWords[k]>> : k \in
     {k \in DOMAIN FixedWords :
        e.md[FieldOf(FixedWords[k])] # DefaultOf(e.kind, FixedWords[k])}}
  \cup
  {<<"param", e.md.parameters[i].name>> : i \in
     {i \in DOMAIN e.md.parameters : e.md.parameters[i].msg # PyNone}}

\* C11: every line of a visited routine sets at most one field, the one the
\* priority order description: > example: > return: > exception: >
\* <parameter>: gives it; so the fields set are exactly the targets of the
\* routine's lines, a line starting with a fixed prefix sets no parameter
\* message even when a parameter has that name, and a line sets the message
\* of at most one parameter.
C11_FirstMatchWinsInPriorityOrder ==
  \A k \in DOMAIN log :
    IsRoutine(log[k].node) =>
      LET lines == StrLines(log[k].before)
      IN /\ Changed(log[k])
              = {Target(log[k].node, lines[i]) : i \in DOMAIN lines} \ {<<"none", "">>}
         /\ Cardinality(Changed(log[k])) <= Len(lines)

\* A visited routine with a parameter named description whose body holds a
\* description: line, which set the description and not the parameter's
\* message, and an x: line, which set the message of x.
C11_Witness ==
  /\ pc = "visited"
  /\ \E k \in DOMAIN log :
       /\ IsRoutine(log[k].node)
       /\ \E i \in DOMAIN log[k].node.args : log[k].node.args[i].arg = "description"
       /\ \E i \in DOMAIN log[k].before :
            /\ IsStrLiteral(log[k].before[i])
            /\ StartsWith(log[k].before[i].value.value.s, Prefix("description"))
       /\ Changed(log[k]) = {<<"field", "description">>, <<"param", "x">>}

\* The bullets of the Methods section of a block: the lines between the
\* Methods header and the empty line that ends the section.
MethodsBullets(lines) ==
  LET heads == {i \in DOMAIN lines : lines[i] = <<"## Methods:">>}
  IN IF heads = {} THEN <<>>
     ELSE LET h == CHOOSE i \in heads : \A j \in heads : i <= j
              ends == {i \in DOMAIN lines : i > h /\ lines[i] = <<>>}
              e == CHOOSE i \in ends : \A j \in ends : i <= j
          IN SubSeq(lines, h + 1, e - 1)

\* The bullet a contained routine stands for: its name and the description
\* its own extractor gives it.
BulletOf(routine) ==
  <<"-", Backtick>> \o routine.name \o <<"()", Backtick, ":">>
    \o Format(ExtractOf(routine).v.description)

IsDunder(node) == StartsWith(node.name, <<"__">>)

\* C12 (as claimed): the Methods section of a visited class has exactly one
\* bullet per contained routine, sync or async, whose name does not start
\* with a double underscore, in body order, and none for the others; the
\* bullet's text is the description extracted from the routine as it was
\* before its own visit.
C12_OneBulletPerContainedRoutine ==
  \A k \in DOMAIN log :
    log[k].kind = "ClassDef" =>
      LET shown == SelectSeq(log[k].before,
                             LAMBDA st : IsRoutine(st) /\ ~IsDunder(st))
      IN MethodsBullets(log[k].lines) = [i \in DOMAIN shown |-> BulletOf(shown[i])]

\* The part of C12 the code keeps: one bullet per contained function that is
\* not async and whose name does not start with a double underscore.
C12_OneBulletPerContainedFunction ==
  \A k \in DOMAIN log :
    log[k].kind = "ClassDef" =>
      LET shown == SelectSeq(log[k].before,
                             LAMBDA st : st.kind = "FunctionDef" /\ ~IsDunder(st))
      IN MethodsBullets(log[k].lines) = [i \in DOMAIN shown |-> BulletOf(shown[i])]

\* The bullets of the Parameters section of a block.
ParamBullets(lines) ==
  LET heads == {i \in DOMAIN lines : lines[i] = <<"## Parameters:">>}
  IN IF heads = {} THEN <<>>
     ELSE LET h == CHOOSE i \in heads : \A j \in heads : i <= j
              ends == {i \in DOMAIN lines : i > h /\ lines[i] = <<>>}
              e == CHOOSE i \in ends : \A j \in ends : i <= j
          IN SubSeq(lines, h + 1, e - 1)

\* The message of the last line of body that starts with "<name>:", if any.
HasLineFor(body, name) ==
  \E i \in DOMAIN body :
    /\ IsStrLiteral(body[i])
    /\ StartsWith(body[i].value.value.s, Prefix(name))
    /\ Len(body[i].value.value.s) > 2

\* table and bullets have one entry per parameter of declared, in order: an
\* untyped parameter has type "...", and a parameter without a message
\* renders the message placeholder "...".
OneEntryPer(declared, e) ==
  LET table == e.md.parameters
      bullets == ParamBullets(e.lines)
  IN /\ Len(table) = Len(declared)
     /\ Len(bullets) = Len(declared)
     /\ \A i \in DOMAIN declared :
          /\ i \in DOMAIN table
          /\ i \in DOMAIN bullets
          /\ table[i].name = declared[i].arg
          /\ declared[i].annotation = NoAnn => table[i].type = "..."
          /\ StartsWith(bullets[i], <<"-", Backtick, declared[i].arg, Backtick>>)
          /\ ~HasLineFor(e.before, declared[i].arg)
               => bullets[i] = <<"-", Backtick, declared[i].arg, Backtick, ":",
                                 table[i].type, "-", "...">>

\* C13 (as claimed): the parameter table and the Parameters section of a
\* visited routine have exactly one entry per declared parameter, in
\* declaration order; an untyped parameter has type "...", and a parameter
\* with no <param>: line, or an empty message, renders the placeholder "...".
C13_OneEntryPerDeclaredParameter ==
  \A k \in DOMAIN log :
    IsRoutine(log[k].node) =>
      OneEntryPer(log[k].node.args \o log[k].node.kwonlyargs, log[k])

\* The part of C13 the code keeps: one entry per positional parameter, in
\* order, untyped ones with type "..."; the bullet of self or cls is the bare
\* name, every other bullet carries the type and the message or "...".
C13_OneEntryPerPositionalParameter ==
  \A k \in DOMAIN log :
    IsRoutine(log[k].node) =>
      LET declared == log[k].node.args
          table == log[k].md.parameters
          bullets == ParamBullets(log[k].lines)
      IN /\ Len(table) = Len(declared)
         /\ Len(bullets) = Len(declared)
         /\ \A i \in DOMAIN declared :
              /\ table[i].name = declared[i].arg
              /\ declared[i].annotation = NoAnn => table[i].type = "..."
              /\ bullets[i] =
                   IF declared[i].arg \in {"self", "cls"}
                   THEN <<"-", Backtick, declared[i].arg, Backtick>>
                   ELSE <<"-", Backtick, declared[i].arg, Backtick, ":",
                          table[i].type, "-">>
                          \o (IF Truthy(table[i].msg) THEN table[i].msg.s
                              ELSE <<"...">>)
              /\ ~HasLineFor(log[k].before, declared[i].arg) => ~Truthy(table[i].msg)

\* The rest of a line after its leading prefix p.
Remainder(s, p) == SubSeq(s, Len(p) + 1, Len(s))

\* The target of a line of a visited unit: of a class, description or none.
TargetIn(e, s) ==
  IF e.kind = "ClassDef"
  THEN IF StartsWith(s, Prefix("description"))
       THEN <<"field", "description">> ELSE <<"none", "">>
  ELSE Target(e.node, s)

\* The value the metadata of a visited unit holds for a target.
Stored(e, t) ==
  IF t[1] = "field" THEN e.md[FieldOf(t[2])]
  ELSE LET i == CHOOSE i \in DOMAIN e.md.parameters : e.md.parameters[i].name = t[2]
       IN e.md.parameters[i].msg

\* The last line of a visited unit with target t.
LastLineFor(e, t) ==
  LET lines == StrLines(e.before)
      hits == {i \in DOMAIN lines : TargetIn(e, lines[i]) = t}
  IN lines[CHOOSE i \in hits : \A j \in hits : j <= i]

\* The targets of the lines of a visited unit.
TargetsOf(e) ==
  {TargetIn(e, StrLines(e.before)[i]) : i \in DOMAIN StrLines(e.before)}
    \ {<<"none", "">>}

\* C14 (as claimed): the value stored for a prefix is the rest of the last
\* line classified under it after that one leading prefix, later
\* occurrences of the prefix inside the line included.
C14_StoredValueIsRemainderOfLastLine ==
  \A k \in DOMAIN log : \A t \in TargetsOf(log[k]) :
    Stored(log[k], t) = PyStr(Remainder(LastLineFor(log[k], t), Prefix(t[2])))

\* The part of C14 the code keeps: the last line classified under a prefix
\* gives the stored value, which is that line with every occurrence of the
\* prefix removed.
C14_StoredValueIsLastLineWithoutPrefix ==
  \A k \in DOMAIN log : \A t \in TargetsOf(log[k]) :
    Stored(log[k], t) = PyStr(Replace(LastLineFor(log[k], t), Prefix(t[2])))

\* The call has ended with the output written.
RunSucceeded == pc = "returned" /\ result.ok

\* C15: after every successful run, the first one included, the body of
\* every class, function and async function of the output holds exactly one
\* top-level bare literal statement, the block synthesized for it, at the
\* head of the body; and from the third run on a run's output equals the
\* output of the run before it, which was its input.
C15_OneBlockPerUnitAndStableFromSecondRun ==
  RunSucceeded =>
    LET units == UnitsOf(out.content)
    IN /\ Len(units) = Len(log)
       /\ \A i \in DOMAIN units :
            /\ units[i].body # <<>>
            /\ units[i].body[1] = DocStmt(Join(log[i].lines))
            /\ \A j \in 2..Len(units[i].body) : ~IsLiteral(units[i].body[j])
       /\ run >= 3 => (out.content = input.tree /\ out.content = out0.content)

\* A third successful run over a unit nested in another, the outer one with
\* a statement after its block.
C15_Witness ==
  /\ RunSucceeded
  /\ run = 3
  /\ Len(log) >= 2
  /\ Len(log[1].after) >= 2
  /\ Len(UnitsOf(out.content)) >= 2
====
